---- MODULE Spec2Model ----
(***************************************************************************)
(* Model of the counter server of src/main.rs: one i32 behind a            *)
(* tokio::sync::Mutex, shared by the request tasks of an MCP server, and   *)
(* the three tools increment, decrement and get_counter routed to it by    *)
(* call_tool, plus the list_tools discovery handler.                       *)
(***************************************************************************)
EXTENDS Integers, Sequences, FiniteSets

(***************************************************************************)
(* Bounds of the model and constants of the program.                       *)
(***************************************************************************)
\* number of request tasks the runtime spawns (one per inbound request)
NumTasks == 3

\* i32::MAX and i32::MIN, the range of `counter: Arc<Mutex<i32>>`
MaxI32 == 2147483647
MinI32 == (-MaxI32) - 1

\* Mutex::new(0)
\* fault: the counter created as 1
InitialCounter_One == 0 + 1
InitialCounter == 0

Tasks == 1 .. NumTasks
NoTask == 0

\* the names the #[tool(name = ...)] attributes register with the router
ToolNames == {"increment", "decrement", "get_counter"}
\* names a client may send that no attribute registers
UnknownNames == {"reset"}
\* pagination cursors a client may send with a list-tools request
Cursors == {"None", "page2"}

\* the allocation made by `Arc::new(Mutex::new(0))` in HelloWorld::new()
Root == 1
NoCell == 0

\* fault: a clone that copies the mutex instead of sharing it
CloneHandler_Deep(h, t) == h + t

\* #[derive(Clone)] on HelloWorld clones its Arc: the t-th clone of a handler
\* whose `counter` field points to h points to the same allocation
CloneHandler(h, t) == h

\* the allocations a handler can point to
Cells == {Root} \cup {CloneHandler(Root, t) : t \in Tasks}

VARIABLES
    value,            \* value[c]: the i32 inside the Mutex of allocation c
    owner,            \* owner[c]: the task owning its MutexGuard, NoTask when free
    overflowChecks,   \* build profile: TRUE when `+=` / `-=` are overflow-checked
    mainPc,           \* where main() stands: "serve", "waiting" or "exit"
    exit,             \* what main() returned: "none" while it runs
    transport,        \* what the stdio transport has reported to main()
    handle,           \* handle[t]: the allocation the handler serving t points to
    pc,               \* pc[t]: where request task t stands in its handler
    req,              \* req[t]: the request task t handles
    tmp,              \* tmp[t]: the value task t loaded through its guard
    result,           \* result[t]: what the handler of task t returned
    atLock,           \* atLock[t]: the counter when t acquired the lock (history)
    order             \* the tasks in the order they acquired the lock (history)

vars == <<value, owner, overflowChecks, mainPc, exit, transport, handle,
          pc, req, tmp, result, atLock, order>>

\* the counter of the server: the i32 HelloWorld::new() allocated, and its lock
counter == value[Root]
locked == owner[Root]

(***************************************************************************)
(* i32 arithmetic.  TLC's integers are 32 bits wide, so wrapping is        *)
(* computed without ever leaving the range.                                *)
(***************************************************************************)
Overflows(n, d) ==
    \/ d > 0 /\ n > MaxI32 - d
    \/ d < 0 /\ n < MinI32 - d

\* fault: saturating instead of wrapping arithmetic
WrappingAdd_Saturating(n, d) ==
    IF d > 0 /\ n > MaxI32 - d THEN MaxI32
    ELSE IF d < 0 /\ n < MinI32 - d THEN MinI32
    ELSE n + d

\* fault: a counter that is floored at zero
WrappingAdd_FloorZero(n, d) ==
    IF n + d < 0 THEN 0 ELSE n + d

\* n + d modulo 2^32, as two's complement i32
WrappingAdd(n, d) ==
    IF d > 0 /\ n > MaxI32 - d THEN MinI32 + ((d - 1) - (MaxI32 - n))
    ELSE IF d < 0 /\ n < MinI32 - d THEN MaxI32 - (((-d) - 1) - (n - MinI32))
    ELSE n + d

(***************************************************************************)
(* i32::to_string: the decimal text, a sequence of characters.             *)
(***************************************************************************)
DigitChar(d) == <<"0", "1", "2", "3", "4", "5", "6", "7", "8", "9">>[d + 1]

RECURSIVE NatDigits(_)
NatDigits(n) ==
    IF n < 10 THEN <<DigitChar(n)>>
    ELSE NatDigits(n \div 10) \o <<DigitChar(n % 10)>>

ToString(n) ==
    IF n >= 0 THEN NatDigits(n)
    ELSE LET last == (10 - (n % 10)) % 10      \* last digit of |n|
             rest == (n + last) \div 10        \* -(|n| div 10)
         IN  <<"-">> \o (IF rest = 0 THEN <<>> ELSE NatDigits(-rest))
                     \o <<DigitChar(last)>>

(***************************************************************************)
(* Results of the handlers.                                                *)
(***************************************************************************)
NoResult == [kind |-> "none"]
\* fault: the text pushed twice into the content vector
Success_TwoParts(text) == [kind |-> "success", content |-> <<text, text>>]
\* Ok(CallToolResult::success(vec![Content::text(text)]))
Success(text) == [kind |-> "success", content |-> <<text>>]
\* the Err(ErrorData) the router returns for a name it does not know
ToolError == [kind |-> "error"]
\* the task unwound from a panic: no result is returned
Panicked == [kind |-> "panic"]

(***************************************************************************)
(* The tool router built by #[tool_router].                                *)
(***************************************************************************)
\* fault: a router that accepts any name
IsRegistered_Any(name) == TRUE

IsRegistered(name) == name \in ToolNames

\* fault: get_counter registered on the increment method
Handler_Misrouted(name) == IF name = "get_counter" THEN "increment" ELSE name

\* the method a registered name is routed to
Handler(name) == name

\* fault: steps of 2
Delta_Double(h) ==
    CASE h = "increment" -> 2
      [] h = "decrement" -> -2
      [] OTHER -> 0

\* `*count += 1` in increment, `*count -= 1` in decrement; get_counter has none
Delta(h) ==
    CASE h = "increment" -> 1
      [] h = "decrement" -> -1
      [] OTHER -> 0

\* the first statement after `let count = self.counter.lock().await`
AfterLock(h) == IF h \in {"increment", "decrement"} THEN "load" ELSE "fmt"

\* fault: a tool missing from the listing
ListAll_Partial == {"increment", "decrement"}

\* Self::tool_router().list_all(): the names of the registered tools
ListAll == ToolNames

\* fault: the request cursor echoed as next cursor
NextCursor_Echo(cursor) == cursor

\* next_cursor: None
NextCursor(cursor) == "None"

ListToolsResult(cursor) ==
    [kind |-> "tools", tools |-> ListAll, next_cursor |-> NextCursor(cursor)]

\* get_info: the static ServerInfo
ServerInfo ==
    [kind |-> "info",
     protocol_version |-> "2024-11-05",
     capabilities |-> {"tools"},
     instructions |-> "increment, decrement, get_counter"]

(***************************************************************************)
(* The lock.                                                               *)
(***************************************************************************)
\* fault: a lock that is always granted
LockFree_NoExclusion(c) == TRUE

\* Mutex::lock() resolves only when no guard is alive
LockFree(c) == owner[c] = NoTask

(***************************************************************************)
(* main(): what it returns.                                                *)
(***************************************************************************)
\* `HelloWorld::new().serve(stdio()).await?`: an Err is returned at once
TryServe(r) == IF r = "Err" THEN "ErrServe" ELSE "none"

\* fault: main fails when a tool call has failed
TryWaiting_ToolErrors(r) ==
    IF r = "Err" \/ \E t \in Tasks : result[t].kind \in {"error", "panic"}
        THEN "ErrWaiting" ELSE "Ok"

\* `service.waiting().await?; Ok(())`
TryWaiting(r) == IF r = "Err" THEN "ErrWaiting" ELSE "Ok"

\* the service answers requests from the handshake until the transport ends
Serving == mainPc = "waiting"

(***************************************************************************)
(* Initial state: main() starts, HelloWorld::new() has built the service,  *)
(* no request received yet.                                                *)
(***************************************************************************)
TypeOK ==
    /\ value \in [Cells -> MinI32 .. MaxI32]
    /\ owner \in [Cells -> Tasks \cup {NoTask}]
    /\ overflowChecks \in BOOLEAN
    /\ mainPc \in {"serve", "waiting", "exit"}
    /\ exit \in {"none", "Ok", "ErrServe", "ErrWaiting"}
    /\ transport \in {"connecting", "open", "handshake_failed", "closed", "failed"}
    /\ handle \in [Tasks -> Cells \cup {NoCell}]
    /\ pc \in [Tasks -> {"idle", "lock", "load", "store", "fmt", "drop",
                         "done", "panicked", "cancelled"}]

InitTasks ==
    /\ owner = [c \in Cells |-> NoTask]
    /\ overflowChecks \in BOOLEAN
    /\ mainPc = "serve"
    /\ exit = "none"
    /\ transport = "connecting"
    /\ handle = [t \in Tasks |-> NoCell]
    /\ pc = [t \in Tasks |-> "idle"]
    /\ req = [t \in Tasks |-> [op |-> "none"]]
    /\ tmp = [t \in Tasks |-> 0]
    /\ result = [t \in Tasks |-> NoResult]
    /\ atLock = [t \in Tasks |-> 0]
    /\ order = <<>>

Init ==
    /\ value = [c \in Cells |-> InitialCounter]
    /\ InitTasks

(***************************************************************************)
(* Actions.                                                                *)
(***************************************************************************)
\* `serve(stdio()).await` resolves: the handshake succeeded or failed
Serve ==
    /\ mainPc = "serve"
    /\ \E r \in {"Ok", "Err"} :
          /\ transport' = IF r = "Ok" THEN "open" ELSE "handshake_failed"
          /\ exit' = TryServe(r)
          /\ mainPc' = IF TryServe(r) = "none" THEN "waiting" ELSE "exit"
    /\ UNCHANGED <<value, owner, overflowChecks, handle, pc, req, tmp, result,
                   atLock, order>>

\* `service.waiting().await` resolves: the transport ended, cleanly or not,
\* and main returns.  The runtime shuts down: the futures suspended at
\* `lock().await` are dropped, a task in the middle of its poll finishes it.
Waiting ==
    /\ mainPc = "waiting"
    /\ \E r \in {"Ok", "Err"} :
          /\ transport' = IF r = "Ok" THEN "closed" ELSE "failed"
          /\ exit' = TryWaiting(r)
    /\ mainPc' = "exit"
    /\ pc' = [t \in Tasks |-> IF pc[t] = "lock" THEN "cancelled" ELSE pc[t]]
    /\ UNCHANGED <<value, owner, overflowChecks, handle, req, tmp, result,
                   atLock, order>>

\* call_tool: the router looks the name up; a registered tool's future starts
\* and reaches `self.counter.lock().await`, an unknown name is an Err.
CallTool(t) ==
    /\ Serving
    /\ pc[t] = "idle"
    /\ handle' = [handle EXCEPT ![t] = CloneHandler(Root, t)]
    /\ \E name \in ToolNames \cup UnknownNames :
          /\ req' = [req EXCEPT ![t] = [op |-> "call_tool", name |-> name]]
          /\ IF IsRegistered(name)
                THEN /\ pc' = [pc EXCEPT ![t] = "lock"]
                     /\ result' = result
                ELSE /\ pc' = [pc EXCEPT ![t] = "done"]
                     /\ result' = [result EXCEPT ![t] = ToolError]
    /\ UNCHANGED <<value, owner, overflowChecks, mainPc, exit, transport,
                   tmp, atLock, order>>

\* list_tools: the pagination parameter is ignored
ListTools(t) ==
    /\ Serving
    /\ pc[t] = "idle"
    /\ handle' = [handle EXCEPT ![t] = CloneHandler(Root, t)]
    /\ \E cursor \in Cursors :
          /\ req' = [req EXCEPT ![t] = [op |-> "list_tools", cursor |-> cursor]]
          /\ result' = [result EXCEPT ![t] = ListToolsResult(cursor)]
    /\ pc' = [pc EXCEPT ![t] = "done"]
    /\ UNCHANGED <<value, owner, overflowChecks, mainPc, exit, transport,
                   tmp, atLock, order>>

\* get_info: returns the static description of the server
GetInfo(t) ==
    /\ Serving
    /\ pc[t] = "idle"
    /\ handle' = [handle EXCEPT ![t] = CloneHandler(Root, t)]
    /\ req' = [req EXCEPT ![t] = [op |-> "get_info"]]
    /\ result' = [result EXCEPT ![t] = ServerInfo]
    /\ pc' = [pc EXCEPT ![t] = "done"]
    /\ UNCHANGED <<value, owner, overflowChecks, mainPc, exit, transport,
                   tmp, atLock, order>>

\* fault: lock() that does not wait for the guard to be dropped
Lock_NoWait(t) ==
    /\ pc[t] = "lock"
    /\ owner' = [owner EXCEPT ![handle[t]] = t]
    /\ pc' = [pc EXCEPT ![t] = AfterLock(Handler(req[t].name))]
    /\ atLock' = [atLock EXCEPT ![t] = value[handle[t]]]
    /\ order' = Append(order, t)
    /\ UNCHANGED <<value, overflowChecks, mainPc, exit, transport, handle,
                   req, tmp, result>>

\* `self.counter.lock().await` resolves: the task owns the guard
Lock(t) ==
    /\ pc[t] = "lock"
    /\ LockFree(handle[t])
    /\ owner' = [owner EXCEPT ![handle[t]] = t]
    /\ pc' = [pc EXCEPT ![t] = AfterLock(Handler(req[t].name))]
    /\ atLock' = [atLock EXCEPT ![t] = value[handle[t]]]
    /\ order' = Append(order, t)
    /\ UNCHANGED <<value, overflowChecks, mainPc, exit, transport, handle,
                   req, tmp, result>>

\* `*count += 1` / `*count -= 1`: read the value through the guard
Load(t) ==
    /\ pc[t] = "load"
    /\ tmp' = [tmp EXCEPT ![t] = value[handle[t]]]
    /\ pc' = [pc EXCEPT ![t] = "store"]
    /\ UNCHANGED <<value, owner, overflowChecks, mainPc, exit, transport,
                   handle, req, result, atLock, order>>

\* `*count += 1` / `*count -= 1`: add and write back.  With overflow checks
\* the addition panics before the write and the task unwinds; without them
\* it wraps.
Store(t) ==
    /\ pc[t] = "store"
    /\ LET d == Delta(Handler(req[t].name))
       IN  IF overflowChecks /\ Overflows(tmp[t], d)
              THEN /\ value' = value
                   /\ result' = [result EXCEPT ![t] = Panicked]
                   /\ pc' = [pc EXCEPT ![t] = "drop"]
              ELSE /\ value' = [value EXCEPT ![handle[t]] = WrappingAdd(tmp[t], d)]
                   /\ result' = result
                   /\ pc' = [pc EXCEPT ![t] = "fmt"]
    /\ UNCHANGED <<owner, overflowChecks, mainPc, exit, transport, handle,
                   req, tmp, atLock, order>>

\* fault: the guard is dropped before the text is made
Format_Unlocked(t) ==
    /\ pc[t] = "fmt"
    /\ IF owner[handle[t]] = t
          THEN /\ owner' = [owner EXCEPT ![handle[t]] = NoTask]
               /\ UNCHANGED <<result, pc>>
          ELSE /\ result' = [result EXCEPT ![t] = Success(ToString(value[handle[t]]))]
               /\ pc' = [pc EXCEPT ![t] = "done"]
               /\ owner' = owner
    /\ UNCHANGED <<value, overflowChecks, mainPc, exit, transport, handle,
                   req, tmp, atLock, order>>

\* `count.to_string()` and the Ok(CallToolResult::success(..)) built from it
Format(t) ==
    /\ pc[t] = "fmt"
    /\ result' = [result EXCEPT ![t] = Success(ToString(value[handle[t]]))]
    /\ pc' = [pc EXCEPT ![t] = "drop"]
    /\ UNCHANGED <<value, owner, overflowChecks, mainPc, exit, transport,
                   handle, req, tmp, atLock, order>>

\* fault: the guard is leaked, the lock stays held
Drop_Leak(t) ==
    /\ pc[t] = "drop"
    /\ pc' = [pc EXCEPT ![t] = IF result[t] = Panicked THEN "panicked" ELSE "done"]
    /\ UNCHANGED <<value, owner, overflowChecks, mainPc, exit, transport,
                   handle, req, tmp, result, atLock, order>>

\* the guard goes out of scope (on return, or while unwinding): unlock
Drop(t) ==
    /\ pc[t] = "drop"
    /\ owner' = [owner EXCEPT ![handle[t]] = NoTask]
    /\ pc' = [pc EXCEPT ![t] = IF result[t] = Panicked THEN "panicked" ELSE "done"]
    /\ UNCHANGED <<value, overflowChecks, mainPc, exit, transport, handle,
                   req, tmp, result, atLock, order>>

\* fault: a future that can be dropped anywhere, its guard with it
Cancel_MidUpdate(t) ==
    /\ pc[t] \in {"lock", "load", "store"}
    /\ pc' = [pc EXCEPT ![t] = "cancelled"]
    /\ owner' = [c \in Cells |-> IF owner[c] = t THEN NoTask ELSE owner[c]]
    /\ UNCHANGED <<value, overflowChecks, mainPc, exit, transport, handle,
                   req, tmp, result, atLock, order>>

\* The request is abandoned and its future dropped.  A future is dropped
\* only where it is suspended, and `self.counter.lock().await` is the one
\* await of a handler: the task is still waiting for the lock.
Cancel(t) ==
    /\ pc[t] = "lock"
    /\ pc' = [pc EXCEPT ![t] = "cancelled"]
    /\ UNCHANGED <<value, owner, overflowChecks, mainPc, exit, transport,
                   handle, req, tmp, result, atLock, order>>

Next ==
    \/ Serve
    \/ Waiting
    \/ \E t \in Tasks :
        \/ CallTool(t)
        \/ ListTools(t)
        \/ GetInfo(t)
        \/ Lock(t)
        \/ Cancel(t)
        \/ Load(t)
        \/ Store(t)
        \/ Format(t)
        \/ Drop(t)

Spec == Init /\ [][Next]_vars

\* Scheduling: the task that owns the guard keeps running until it returns
\* (no await lies between lock() and the end of a handler), and a free lock
\* with waiters is handed to one of them.  No order among the waiters is
\* assumed.
FairSpec ==
    /\ Spec
    /\ WF_vars(\E t \in Tasks : Load(t) \/ Store(t) \/ Format(t) \/ Drop(t))
    /\ WF_vars(\E t \in Tasks : Lock(t))

\* A long-running server: the counter has reached the ends of the i32 range.
EdgeValues == {MaxI32, MinI32}

InitEdge ==
    /\ \E v \in EdgeValues : value = [c \in Cells |-> v]
    /\ InitTasks

SpecEdge == InitEdge /\ [][Next]_vars

(***************************************************************************)
(* Vocabulary of the properties.                                           *)
(***************************************************************************)
IsCall(t, name) == req[t].op = "call_tool" /\ req[t].name = name
IsInc(t) == IsCall(t, "increment")
IsDec(t) == IsCall(t, "decrement")
IsGet(t) == IsCall(t, "get_counter")
IsUnknown(t) == req[t].op = "call_tool" /\ req[t].name \notin ToolNames
IsList(t) == req[t].op = "list_tools"

\* between acquiring and releasing the lock
InCritical(t) == pc[t] \in {"load", "store", "fmt", "drop"}
\* no call is in flight
Quiescent == \A t \in Tasks : pc[t] \in {"idle", "done", "cancelled"}
NumDone(name) == Cardinality({t \in Tasks : IsCall(t, name) /\ pc[t] = "done"})

\* what a client reads back from a decimal text (the inverse conversion)
DigitValue(c) == CHOOSE d \in 0 .. 9 : DigitChar(d) = c

RECURSIVE ParseDigits(_, _, _)
ParseDigits(s, acc, sign) ==
    IF s = <<>> THEN acc
    ELSE ParseDigits(Tail(s), acc * 10 + sign * DigitValue(Head(s)), sign)

ParseInt(s) ==
    IF Head(s) = "-" THEN ParseDigits(Tail(s), 0, -1) ELSE ParseDigits(s, 0, 1)

\* the number a client reads in a success result
TextValue(t) == ParseInt(result[t].content[1])
Returned(t, n) ==
    /\ result[t].kind = "success"
    /\ Len(result[t].content) = 1
    /\ result[t].content[1] = ToString(n)
    /\ TextValue(t) = n

\* what the k-th lock holder was asked to do to the counter
Effect(t) == IF IsInc(t) THEN 1 ELSE IF IsDec(t) THEN -1 ELSE 0
RECURSIVE NetEffect(_)
NetEffect(k) == IF k = 0 THEN 0 ELSE NetEffect(k - 1) + Effect(order[k])
Position(t) == CHOOSE k \in 1 .. Len(order) : order[k] = t
HasLocked(t) == \E k \in 1 .. Len(order) : order[k] = t

(***************************************************************************)
(* C1: once every issued call has completed, the counter is its initial    *)
(* value plus the number of completed increments minus the number of       *)
(* completed decrements, whatever order the tasks took the lock in.        *)
(***************************************************************************)
C1_NetSum ==
    Quiescent =>
        counter = InitialCounter + NumDone("increment") - NumDone("decrement")

\* two increments and a decrement completed, the last task locking first
C1_Witness ==
    /\ Quiescent
    /\ NumDone("increment") = 2
    /\ NumDone("decrement") = 1
    /\ Len(order) = 3
    /\ order[1] = 3
    /\ counter = 1

(***************************************************************************)
(* C2: at most one task is inside a critical section of the counter, and   *)
(* it is the task that owns the lock; this covers every pair of tools.     *)
(***************************************************************************)
C2_MutualExclusion ==
    /\ Cardinality({t \in Tasks : InCritical(t)}) <= 1
    /\ \A t \in Tasks : InCritical(t) => locked = t

\* a get_counter holds the lock while an increment and a decrement wait for it
C2_Witness ==
    \E g, i, d \in Tasks :
        /\ IsGet(g) /\ pc[g] = "fmt"
        /\ IsInc(i) /\ pc[i] = "lock"
        /\ IsDec(d) /\ pc[d] = "lock"

(***************************************************************************)
(* C3: get_counter never changes the counter: while a get_counter call     *)
(* holds the lock the counter is the value it had when the call acquired   *)
(* it, the call returns the decimal text of that value, and the value each *)
(* increment or decrement returns is fixed by the increments and           *)
(* decrements that locked before it, however many get_counter calls lie    *)
(* in between.                                                             *)
(***************************************************************************)
C3_GetCounterPure ==
    /\ \A t \in Tasks : IsGet(t) =>
          /\ pc[t] \in {"fmt", "drop"} => counter = atLock[t] /\ locked = t
          /\ pc[t] \in {"drop", "done"} => Returned(t, atLock[t])
    /\ \A t \in Tasks : (IsInc(t) \/ IsDec(t)) /\ pc[t] = "done" =>
          Returned(t, InitialCounter + NetEffect(Position(t)))

\* a get_counter ran between two increments: it returned 1, the second
\* increment returned 2
C3_Witness ==
    \E i, g, j \in Tasks :
        /\ order = <<i, g, j>>
        /\ IsInc(i) /\ IsGet(g) /\ IsInc(j)
        /\ Quiescent
        /\ result[g] = Success(<<"1">>)
        /\ result[j] = Success(<<"2">>)

(***************************************************************************)
(* C4: a call of a tool name outside increment, decrement and get_counter  *)
(* ends with an error result for that call only: the step changes nothing  *)
(* but that task's own request, position and result, so the counter, the   *)
(* lock and every other call are as they were; the task never takes the    *)
(* lock.                                                                   *)
(***************************************************************************)
UnknownCallStep(t) ==
    /\ pc[t] = "idle"
    /\ pc'[t] # "idle"
    /\ req'[t].op = "call_tool"
    /\ req'[t].name \notin ToolNames

C4_UnknownTool ==
    /\ [](\A t \in Tasks : IsUnknown(t) =>
            /\ pc[t] = "done"
            /\ result[t] = ToolError
            /\ locked # t
            /\ ~HasLocked(t))
    /\ [][\A t \in Tasks : UnknownCallStep(t) =>
            /\ counter' = counter
            /\ locked' = locked
            /\ UNCHANGED <<overflowChecks, tmp, atLock, order>>
            /\ \A u \in Tasks \ {t} :
                  pc'[u] = pc[u] /\ req'[u] = req[u] /\ result'[u] = result[u]]_vars

\* "reset" was answered with an error after an increment; a get_counter then
\* returned 1, the value before the unknown call
C4_Witness ==
    \E i, u, g \in Tasks :
        /\ IsInc(i) /\ pc[i] = "done"
        /\ IsUnknown(u) /\ req[u].name = "reset" /\ result[u] = ToolError
        /\ IsGet(g) /\ pc[g] = "done" /\ atLock[g] = 1
        /\ result[g] = Success(<<"1">>)
        /\ locked = NoTask
        /\ counter = 1

(***************************************************************************)
(* C5: each increment adds exactly 1 to the counter and returns the        *)
(* decimal text of the new value; after N increments and nothing else the  *)
(* counter is the initial value + N and the k-th of them returned the      *)
(* initial value + k.                                                      *)
(***************************************************************************)
OnlyIncrements(k) == \A j \in 1 .. k : IsInc(order[j])

C5_Increment ==
    /\ \A t \in Tasks : IsInc(t) =>
          /\ pc[t] \in {"fmt", "drop"} => counter = atLock[t] + 1
          /\ pc[t] \in {"drop", "done"} => Returned(t, atLock[t] + 1)
    /\ \A k \in 1 .. Len(order) : OnlyIncrements(k) /\ pc[order[k]] = "done" =>
          Returned(order[k], InitialCounter + k)
    /\ OnlyIncrements(Len(order)) /\ Quiescent =>
          counter = InitialCounter + Len(order)

\* three increments, one after the other, returned 1, 2 and 3
C5_Witness ==
    /\ order = <<1, 2, 3>>
    /\ OnlyIncrements(3)
    /\ Quiescent
    /\ counter = 3
    /\ \A k \in 1 .. 3 : TextValue(k) = k
    /\ result[3] = Success(<<"3">>)

(***************************************************************************)
(* C6: each decrement subtracts exactly 1 and returns the decimal text of  *)
(* the new value, with no floor at zero: after N decrements and nothing    *)
(* else the counter is the initial value - N, and a decrement from 0       *)
(* leaves -1.                                                              *)
(***************************************************************************)
OnlyDecrements(k) == \A j \in 1 .. k : IsDec(order[j])

C6_Decrement ==
    /\ \A t \in Tasks : IsDec(t) =>
          /\ pc[t] \in {"fmt", "drop"} => counter = atLock[t] - 1
          /\ pc[t] \in {"drop", "done"} => Returned(t, atLock[t] - 1)
    /\ \A k \in 1 .. Len(order) : OnlyDecrements(k) /\ pc[order[k]] = "done" =>
          Returned(order[k], InitialCounter - k)
    /\ OnlyDecrements(Len(order)) /\ Quiescent =>
          counter = InitialCounter - Len(order)

\* a decrement from 0 returned "-1", the next one "-2"
C6_Witness ==
    \E d, e \in Tasks :
        /\ order = <<d, e>>
        /\ IsDec(d) /\ IsDec(e)
        /\ Quiescent
        /\ atLock[d] = 0
        /\ result[d] = Success(<<"-", "1">>)
        /\ result[e] = Success(<<"-", "2">>)
        /\ counter = -2

(***************************************************************************)
(* C7: the counter is 0 when the server starts and stays 0 until an        *)
(* increment or decrement takes the lock; a get_counter that completes     *)
(* before any of them has taken it returns the text "0".                   *)
(***************************************************************************)
NoUpdateYet(k) == \A j \in 1 .. k : ~(IsInc(order[j]) \/ IsDec(order[j]))

C7_StartsAtZero ==
    /\ NoUpdateYet(Len(order)) => counter = 0
    /\ \A t \in Tasks :
          IsGet(t) /\ pc[t] = "done" /\ NoUpdateYet(Position(t)) =>
              result[t] = Success(<<"0">>)

\* a get_counter completed first and returned "0"; an increment is now
\* about to write
C7_Witness ==
    \E g, i \in Tasks :
        /\ order = <<g, i>>
        /\ IsGet(g) /\ pc[g] = "done"
        /\ result[g] = Success(<<"0">>)
        /\ IsInc(i) /\ pc[i] = "store"

(***************************************************************************)
(* C8: list_tools returns exactly the names increment, decrement and       *)
(* get_counter with no next cursor, whatever cursor was sent and whatever  *)
(* the counter is, and its step leaves the counter and the lock alone.     *)
(***************************************************************************)
ListToolsStep(t) == pc[t] = "idle" /\ req'[t].op = "list_tools"

C8_Discovery ==
    /\ [](\A t \in Tasks : IsList(t) =>
            /\ pc[t] = "done"
            /\ result[t].kind = "tools"
            /\ result[t].tools = {"increment", "decrement", "get_counter"}
            /\ Cardinality(result[t].tools) = 3
            /\ result[t].next_cursor = "None"
            /\ ~HasLocked(t))
    /\ [][\A t \in Tasks : ListToolsStep(t) =>
            /\ counter' = counter
            /\ locked' = locked
            /\ result'[t] = [kind |-> "tools",
                             tools |-> {"increment", "decrement", "get_counter"},
                             next_cursor |-> "None"]]_vars

\* discovery with a cursor, answered while the counter is -1 and a
\* get_counter holds the lock
C8_Witness ==
    \E l, d, g \in Tasks :
        /\ IsList(l) /\ req[l].cursor = "page2" /\ pc[l] = "done"
        /\ result[l].next_cursor = "None"
        /\ IsDec(d) /\ pc[d] = "done"
        /\ counter = -1
        /\ IsGet(g) /\ locked = g

(***************************************************************************)
(* C9: the counter store never deadlocks.  The task that owns the lock is  *)
(* always at a statement of its critical section, never waiting, and can   *)
(* always take its next step; and, tasks being scheduled fairly, every     *)
(* call that reached lock() and is not abandoned while it waits eventually *)
(* completes with the lock released.                                       *)
(***************************************************************************)
HolderRuns ==
    \A t \in Tasks :
        locked = t =>
            /\ InCritical(t)
            /\ ENABLED (Load(t) \/ Store(t) \/ Format(t) \/ Drop(t))

WaiterNotStuck ==
    (\E t \in Tasks : pc[t] = "lock") =>
        \E u \in Tasks : ENABLED (Lock(u) \/ Load(u) \/ Store(u) \/ Format(u) \/ Drop(u))

\* a call that reached lock() and has left it is abandoned or has completed
CompletedOrAbandoned(t) ==
    \/ pc[t] = "cancelled"
    \/ pc[t] = "done" /\ locked # t /\ result[t].kind = "success"

\* no call is waiting for the lock or inside its critical section
NoneInFlight == \A t \in Tasks : pc[t] # "lock" /\ ~InCritical(t)

\* Calls never go back, so that again and again no call is in flight says
\* that each call in flight leaves: by then it is abandoned or completed.
C9_NoDeadlock ==
    /\ [](HolderRuns /\ WaiterNotStuck)
    /\ [](\A t \in Tasks :
            req[t].op = "call_tool" /\ req[t].name \in ToolNames =>
                pc[t] = "lock" \/ InCritical(t) \/ CompletedOrAbandoned(t))
    /\ [][\A t \in Tasks : pc[t] # "idle" => pc'[t] # "idle"]_vars
    /\ []<>NoneInFlight

\* two calls wait for the lock while a third is inside its critical section
C9_Witness ==
    \E h, w, x \in Tasks :
        /\ w # x
        /\ locked = h /\ pc[h] = "store"
        /\ pc[w] = "lock"
        /\ pc[x] = "lock"

(***************************************************************************)
(* C10: the counter is an i32 and the handlers check no bound.             *)
(* As claimed: an increment at 2147483647 always succeeds and leaves       *)
(* -2147483648, a decrement at -2147483648 always succeeds and leaves      *)
(* 2147483647, and no call fails because of the value.                     *)
(***************************************************************************)
IsUpdate(t) == IsInc(t) \/ IsDec(t)
AtLimit(t) ==
    \/ IsInc(t) /\ atLock[t] = MaxI32
    \/ IsDec(t) /\ atLock[t] = MinI32
\* the two's complement successor and predecessor
Wrapped(t) ==
    IF IsInc(t)
        THEN (IF atLock[t] = MaxI32 THEN MinI32 ELSE atLock[t] + 1)
        ELSE (IF atLock[t] = MinI32 THEN MaxI32 ELSE atLock[t] - 1)
\* the update of task t has been carried out or abandoned
PastStore(t) == pc[t] \in {"fmt", "drop", "done", "panicked"}

C10_AlwaysWraps ==
    \A t \in Tasks : IsUpdate(t) /\ PastStore(t) =>
        /\ result[t] # Panicked
        /\ pc[t] # "panicked"
        /\ pc[t] = "fmt" => counter = Wrapped(t)
        /\ pc[t] = "done" => Returned(t, Wrapped(t))

(***************************************************************************)
(* C10 as amended: what happens at the limits is the build's: without      *)
(* overflow checks the update wraps as claimed and succeeds; with them     *)
(* the call panics before the write, so the counter keeps its value and    *)
(* no result is returned.  Away from the limits every update succeeds in   *)
(* either build.                                                           *)
(***************************************************************************)
C10_WrapsOrPanics ==
    \A t \in Tasks : IsUpdate(t) /\ PastStore(t) =>
        IF overflowChecks /\ AtLimit(t)
            THEN /\ result[t] = Panicked
                 /\ pc[t] \in {"drop", "panicked"}
                 /\ pc[t] = "drop" => counter = atLock[t]
            ELSE /\ result[t] # Panicked
                 /\ pc[t] \in {"fmt", "drop", "done"}
                 /\ pc[t] = "fmt" => counter = Wrapped(t)
                 /\ pc[t] \in {"drop", "done"} => Returned(t, Wrapped(t))

\* without overflow checks an increment at 2147483647 returned -2147483648
\* and a decrement then returned 2147483647
C10_Witness ==
    \E i, d \in Tasks :
        /\ ~overflowChecks
        /\ order = <<i, d>>
        /\ IsInc(i) /\ atLock[i] = MaxI32 /\ pc[i] = "done"
        /\ result[i] = Success(<<"-", "2", "1", "4", "7", "4", "8", "3", "6", "4", "8">>)
        /\ IsDec(d) /\ atLock[d] = MinI32 /\ pc[d] = "done"
        /\ result[d] = Success(<<"2", "1", "4", "7", "4", "8", "3", "6", "4", "7">>)
        /\ counter = MaxI32

(***************************************************************************)
(* C11: a request abandoned before it owns the lock has no effect: the     *)
(* step changes nothing but that task's position, the task never owned or  *)
(* owns the lock and returns nothing, and a waiter can still take a free   *)
(* lock.  A task that owns the lock is never abandoned: it stays in its    *)
(* critical section until it returns with its update applied and the lock  *)
(* released, and it does leave it.                                         *)
(***************************************************************************)
CancelStep(t) == pc[t] # "cancelled" /\ pc'[t] = "cancelled"

C11_Cancellation ==
    /\ [](\A t \in Tasks :
            /\ pc[t] = "cancelled" =>
                  ~HasLocked(t) /\ locked # t /\ result[t] = NoResult
            /\ pc[t] = "lock" /\ locked = NoTask => ENABLED Lock(t))
    /\ [][\A t \in Tasks : CancelStep(t) =>
            /\ pc[t] = "lock"
            /\ counter' = counter
            /\ locked' = locked
            /\ UNCHANGED <<tmp, result, atLock, order, req>>
            /\ \A u \in Tasks \ {t} : pc'[u] = pc[u] \/ CancelStep(u)]_vars
    /\ [][\A t \in Tasks : InCritical(t) =>
            InCritical(t)' \/ (pc'[t] = "done" /\ locked' # t)]_vars
    /\ [](\A t \in Tasks : HasLocked(t) /\ pc[t] = "done" =>
            Returned(t, atLock[t] + Effect(t)))
    /\ []<>(\A t \in Tasks : ~InCritical(t))

\* an increment was abandoned while it waited behind a decrement; the
\* get_counter that waited with it then ran and returned -1
C11_Witness ==
    \E d, i, g \in Tasks :
        /\ order = <<d, g>>
        /\ IsDec(d) /\ pc[d] = "done"
        /\ IsInc(i) /\ pc[i] = "cancelled"
        /\ IsGet(g) /\ pc[g] = "done" /\ result[g] = Success(<<"-", "1">>)
        /\ counter = -1
        /\ locked = NoTask

(***************************************************************************)
(* C12: a tool invocation that has ended carries exactly one of two        *)
(* outcomes: a success result with exactly one text item, the decimal      *)
(* representation of an integer, or an error.  An invocation of one of     *)
(* the three registered tools that has ended carries the success outcome.  *)
(***************************************************************************)
Digits == {DigitChar(d) : d \in 0 .. 9}

\* an optional minus sign, then digits without a leading zero
IsDecimal(s) ==
    LET body == IF s # <<>> /\ Head(s) = "-" THEN Tail(s) ELSE s
    IN  /\ body # <<>>
        /\ \A k \in 1 .. Len(body) : body[k] \in Digits
        /\ Len(body) > 1 => body[1] # "0"
        /\ s # <<"-", "0">>
        /\ ToString(ParseInt(s)) = s

IsSuccessOutcome(r) ==
    /\ r.kind = "success"
    /\ Len(r.content) = 1
    /\ IsDecimal(r.content[1])

Ended(t) == pc[t] \in {"done", "panicked"}

WriteStep(t) == pc[t] = "store" /\ pc'[t] = "fmt" /\ locked = t
SuccI32(n) == IF n = MaxI32 THEN MinI32 ELSE n + 1
PredI32(n) == IF n = MinI32 THEN MaxI32 ELSE n - 1

C13_OnlyUnitSteps ==
    [][\/ counter' = counter
       \/ \E t \in Tasks :
             /\ WriteStep(t)
             /\ \A u \in Tasks \ {t} : pc'[u] = pc[u]
             /\ \/ IsInc(t) /\ counter' = SuccI32(counter)
                \/ IsDec(t) /\ counter' = PredI32(counter)]_vars

\* from 2147483647 an increment has completed and a decrement has just
\* written: the counter is back at 2147483647, with a server-info request
\* answered in between
C13_Witness ==
    \E i, d, n \in Tasks :
        /\ order = <<i, d>>
        /\ IsInc(i) /\ pc[i] = "done" /\ atLock[i] = MaxI32
        /\ IsDec(d) /\ pc[d] = "fmt" /\ atLock[d] = MinI32
        /\ req[n].op = "get_info" /\ result[n] = ServerInfo
        /\ counter = MaxI32

(***************************************************************************)
(* C14: main returns an error only with the error of the handshake or of   *)
(* the shutdown wait: the first only when the handshake failed, before any *)
(* request was served, the second only when the transport failed.  No step *)
(* of a request task makes main return, and when the transport ends        *)
(* cleanly main returns Ok, whatever the tool calls returned.              *)
(***************************************************************************)
TaskStep(t) == pc'[t] # pc[t] /\ ~CancelStep(t)

C14_ProcessFailure ==
    /\ [](/\ exit = "ErrServe" =>
                /\ transport = "handshake_failed"
                /\ \A t \in Tasks : pc[t] = "idle"
          /\ exit = "ErrWaiting" => transport = "failed"
          /\ transport = "closed" => exit = "Ok"
          /\ exit # "none" <=> mainPc = "exit")
    /\ [][(\E t \in Tasks : TaskStep(t)) => exit' = exit /\ mainPc' = mainPc]_vars

\* an unknown tool was answered with an error and an update panicked at the
\* limit of the i32 range; the transport then ended cleanly and main
\* returned Ok
C14_Witness ==
    \E u, p \in Tasks :
        /\ IsUnknown(u) /\ result[u] = ToolError
        /\ pc[p] = "panicked"
        /\ transport = "closed"
        /\ exit = "Ok"

(***************************************************************************)
(* C15: the text a call returns is made while the call still owns the      *)
(* lock, so the calls are linearizable in the order they took the lock:    *)
(* each completed increment, decrement and get_counter returned the value  *)
(* the counter has after the calls that locked up to and including it are  *)
(* run one after the other.  When only increments have run, they have      *)
(* returned the values initial + 1 .. initial + a, each once.              *)
(***************************************************************************)
ReturnedValues == {TextValue(order[k]) : k \in 1 .. Len(order)}
AllDone == \A k \in 1 .. Len(order) : pc[order[k]] = "done"

C15_Linearizable ==
    /\ \A t \in Tasks :
          /\ pc[t] \in {"lock", "load", "store", "fmt"} => result[t] = NoResult
          /\ pc[t] = "drop" => locked = t /\ result[t] = Success(ToString(counter))
          /\ HasLocked(t) /\ pc[t] = "done" =>
                Returned(t, InitialCounter + NetEffect(Position(t)))
    /\ OnlyIncrements(Len(order)) /\ AllDone =>
          /\ ReturnedValues = InitialCounter + 1 .. InitialCounter + Len(order)
          /\ \A j, k \in 1 .. Len(order) :
                j # k => TextValue(order[j]) # TextValue(order[k])

\* three increments waited together and took the lock in the order 3, 1, 2:
\* they returned 1, 2 and 3 in that order
C15_Witness ==
    /\ order = <<3, 1, 2>>
    /\ OnlyIncrements(3)
    /\ AllDone
    /\ result[3] = Success(<<"1">>)
    /\ result[1] = Success(<<"2">>)
    /\ result[2] = Success(<<"3">>)

(***************************************************************************)
(* C16: there is one counter.  Every handler that serves a request points  *)
(* to the allocation HelloWorld::new() made, no other allocation exists,   *)
(* and what a get_counter returns through one handler counts the           *)
(* increments and decrements completed before it through every handler.    *)
(***************************************************************************)
C16_OneCounter ==
    /\ Cells = {Root}
    /\ \A t \in Tasks : handle[t] \in {NoCell, Root}
    /\ \A c, d \in Cells : value[c] = value[d]
    /\ \A t \in Tasks : InCritical(t) => owner[Root] = t
    /\ \A g \in Tasks : IsGet(g) /\ pc[g] = "done" =>
          Returned(g, InitialCounter + NetEffect(Position(g)))
    /\ Quiescent =>
          counter = InitialCounter + NumDone("increment") - NumDone("decrement")

\* two increments through the handlers of two tasks, then a get_counter
\* through the handler of a third returned 2
C16_Witness ==
    \E i, j, g \in Tasks :
        /\ order = <<i, j, g>>
        /\ IsInc(i) /\ IsInc(j) /\ IsGet(g)
        /\ handle[i] = Root /\ handle[j] = Root /\ handle[g] = Root
        /\ pc[g] = "done"
        /\ result[g] = Success(<<"2">>)

====
